---- MODULE Spec2Model ----
(***************************************************************************)
(* Model of the ADX MCP server (chewcw/adx-mcp-server).                    *)
(*                                                                         *)
(* The repository holds three variants of class AdxMcpServer:              *)
(*   "local"  src/src/adxMcpServer.ts 1-191   McpServer + sqlite store     *)
(*   "kusto"  src/src/adxMcpServer.ts 193-425 McpServer + resource         *)
(*            templates + Kusto client                                     *)
(*   "raw"    src/unnamed/part_000            low-level Server with        *)
(*            setRequestHandler and regex routing                          *)
(* Strings the code parses or builds (addresses, query texts, payload      *)
(* texts, environment values) are tuples of one-character strings, so      *)
(* that split, regex tests and template literals are computed.             *)
(***************************************************************************)
EXTENDS Naturals, Sequences, FiniteSets, Bags, TLC

(***************************************************************************)
(* Bounds of the model.                                                    *)
(***************************************************************************)
\* requests that may be awaiting the remote client at the same time
MaxInflight == 2
\* calls of connect() over the life of the process (createServer's included)
MaxConnects == 2

(***************************************************************************)
(* String literals of the source.                                          *)
(***************************************************************************)
SchemaAdxPrefix == <<"s","c","h","e","m","a",":","/","/","a","d","x","/">>
FunctionsAdxPrefix == <<"f","u","n","c","t","i","o","n","s",":","/","/","a","d","x","/">>
ConfigUri == <<"c","o","n","f","i","g",":","/","/","a","z","u","r","e","-","d","a","t","a","-","e","x","p","l","o","r","e","r","-","c","r","e","d","s">>
SchemaMainUri == <<"s","c","h","e","m","a",":","/","/","m","a","i","n">>
FunctionsWord == <<"f","u","n","c","t","i","o","n","s">>
ShowTablesQuery == <<".","s","h","o","w"," ","t","a","b","l","e","s">>
ShowFunctionsQuery == <<".","s","h","o","w"," ","f","u","n","c","t","i","o","n","s">>
GetSchemaSuffix == <<" ","|"," ","g","e","t","s","c","h","e","m","a">>
InvalidUriText == <<"I","n","v","a","l","i","d"," ","U","R","I">>
SecretMask == <<"*","*","*","*","*","*">>
NotSetText == <<"N","o","t"," ","s","e","t">>
UndefinedText == <<"u","n","d","e","f","i","n","e","d">>
Slash == "/"

\* the character class \w of the regular expressions
WordChars ==
    {"a","b","c","d","e","f","g","h","i","j","k","l","m","n","o","p","q","r",
     "s","t","u","v","w","x","y","z",
     "A","B","C","D","E","F","G","H","I","J","K","L","M","N","O","P","Q","R",
     "S","T","U","V","W","X","Y","Z",
     "0","1","2","3","4","5","6","7","8","9","_"}

(***************************************************************************)
(* String helpers.                                                         *)
(***************************************************************************)
\* s.startsWith(p)
StartsWith(s, p) ==
    /\ Len(p) <= Len(s)
    /\ SubSeq(s, 1, Len(p)) = p

\* the rest of s after its first n characters
Drop(s, n) == SubSeq(s, n + 1, Len(s))

\* /^\w+$/ : one or more word characters and nothing else
IsWord(s) ==
    /\ Len(s) >= 1
    /\ \A i \in 1..Len(s) : s[i] \in WordChars

\* index of the first "/" of s, or Len(s)+1 when it has none
RECURSIVE FirstSlash(_, _)
FirstSlash(s, i) ==
    IF i > Len(s) THEN i
    ELSE IF s[i] = Slash THEN i
    ELSE FirstSlash(s, i + 1)

\* s.split("/") : the pieces of s between its slashes (always at least one)
RECURSIVE Split(_)
Split(s) ==
    LET i == FirstSlash(s, 1)
    IN  IF i > Len(s) THEN <<s>>
        ELSE <<SubSeq(s, 1, i - 1)>> \o Split(Drop(s, i))

\* the piece after the one asked for
PieceOffByOne(uri, n) ==
    LET parts == Split(uri)
    IN  IF n + 2 <= Len(parts) THEN parts[n + 2] ELSE <<>>

\* uri.split("/")[n] with n counted from 0; a missing piece is undefined,
\* which the code only tests for falsiness, as it does the empty string
Piece(uri, n) ==
    LET parts == Split(uri)
    IN  IF n + 1 <= Len(parts) THEN parts[n + 1] ELSE <<>>

(***************************************************************************)
(* Address routing of the raw-handler variant: three regular expressions   *)
(* tested in this order, none anchored at the start of the address.        *)
(***************************************************************************)
\* the text after the i-th character of uri, when "schema://adx/" starts at i
AfterSchemaAdx(uri, i) == Drop(uri, i - 1 + Len(SchemaAdxPrefix))

\* the positions of uri at which "schema://adx/" starts
SchemaAdxAt(uri) ==
    {i \in 1..Len(uri) : StartsWith(Drop(uri, i - 1), SchemaAdxPrefix)}

\* /schema:\/\/adx\/\w+$/.test(uri)
showTablesRegex(uri) ==
    \E i \in SchemaAdxAt(uri) : IsWord(AfterSchemaAdx(uri, i))

\* /schema:\/\/adx\/\w+\/\w+$/.test(uri)
showTableSchemaRegex(uri) ==
    \E i \in SchemaAdxAt(uri) :
        LET rest == AfterSchemaAdx(uri, i)
        IN  \E j \in 1..Len(rest) :
                /\ rest[j] = Slash
                /\ IsWord(SubSeq(rest, 1, j - 1))
                /\ IsWord(Drop(rest, j))

\* /schema:\/\/adx\/\w+\/functions$/.test(uri)
showFunctionsRegex(uri) ==
    \E i \in SchemaAdxAt(uri) :
        LET rest == AfterSchemaAdx(uri, i)
        IN  \E j \in 1..Len(rest) :
                /\ rest[j] = Slash
                /\ IsWord(SubSeq(rest, 1, j - 1))
                /\ Drop(rest, j) = FunctionsWord

(***************************************************************************)
(* Address routing of the McpServer variants: the address must parse as a  *)
(* URL, an exactly registered address wins, then the resource templates    *)
(* are tried in registration order.  A template variable {x} matches one   *)
(* or more characters other than "/" and ",", and the whole address must   *)
(* match.                                                                  *)
(***************************************************************************)
SchemeChars == (WordChars \ {"_"}) \cup {"+", "-", "."}

\* new URL(uri) succeeds: a scheme, then ":"
IsUrl(uri) ==
    \E i \in 2..Len(uri) :
        /\ uri[i] = ":"
        /\ uri[1] \in (WordChars \ {"_","0","1","2","3","4","5","6","7","8","9"})
        /\ \A k \in 1..(i - 1) : uri[k] \in SchemeChars

\* what a template variable may match
IsTemplateValue(s) ==
    /\ Len(s) >= 1
    /\ \A i \in 1..Len(s) : s[i] \notin {"/", ","}

\* new ResourceTemplate("schema://adx/{db}") matches uri
MatchesDbTemplate(uri) ==
    /\ StartsWith(uri, SchemaAdxPrefix)
    /\ IsTemplateValue(Drop(uri, Len(SchemaAdxPrefix)))

\* new ResourceTemplate("schema://adx/{db}/{table}") matches uri
MatchesTableTemplate(uri) ==
    /\ StartsWith(uri, SchemaAdxPrefix)
    /\ LET rest == Drop(uri, Len(SchemaAdxPrefix))
           j == FirstSlash(rest, 1)
       IN  /\ j <= Len(rest)
           /\ IsTemplateValue(SubSeq(rest, 1, j - 1))
           /\ IsTemplateValue(Drop(rest, j))

\* new ResourceTemplate("functions://adx/{db}/functions") matches uri
MatchesFunctionsTemplate(uri) ==
    /\ StartsWith(uri, FunctionsAdxPrefix)
    /\ LET rest == Drop(uri, Len(FunctionsAdxPrefix))
           j == FirstSlash(rest, 1)
       IN  /\ j <= Len(rest)
           /\ IsTemplateValue(SubSeq(rest, 1, j - 1))
           /\ Drop(rest, j) = FunctionsWord

\* the variables a matching template hands to its callback
TemplateDb(uri, prefix) ==
    LET rest == Drop(uri, Len(prefix))
    IN  SubSeq(rest, 1, FirstSlash(rest, 1) - 1)

TemplateTable(uri, prefix) ==
    LET rest == Drop(uri, Len(prefix))
    IN  Drop(rest, FirstSlash(rest, 1))

(***************************************************************************)
(* The process environment.  process.env is a function from the names that *)
(* are set to their values; a name outside its domain reads as undefined.  *)
(***************************************************************************)
EnvNames == {"ADX_CLUSTER_NAME", "ADX_CLIENT_ID", "ADX_CLIENT_SECRET", "ADX_TENANT_ID"}

\* z.string().min(1) on every one of the four names: envSchema.safeParse(...).success
ValidateSkipsSecret(e) ==
    \A k \in EnvNames \ {"ADX_CLIENT_SECRET"} : k \in DOMAIN e /\ Len(e[k]) >= 1

envSchema(e) ==
    \A k \in EnvNames : k \in DOMAIN e /\ Len(e[k]) >= 1

\* dotenv's config(): the names of the .env file that process.env does not
\* hold yet are added to it; a name already set, even to "", is kept
config(e, file) ==
    [k \in (DOMAIN e) \cup (DOMAIN file) |-> IF k \in DOMAIN e THEN e[k] ELSE file[k]]

\* `${process.env.NAME}`
EnvText(e, k) == IF k \in DOMAIN e THEN e[k] ELSE UndefinedText

\* process.env.NAME is truthy
EnvTruthy(e, k) == k \in DOMAIN e /\ e[k] # <<>>

(***************************************************************************)
(* What a handler does up to its first await, or when it resumes: it       *)
(* throws, returns a payload, returns nothing, or awaits a collaborator.   *)
(* The label and mimeType of a payload are fixed decorations and are left  *)
(* out; the text, the error flag and the four config texts are kept.       *)
(***************************************************************************)
NotInitializedKusto == "Client is not initialized"
NotInitializedRaw == "Database client is not initialized"
ResourceNotFound == "Resource not found"
InvalidUrl == "Invalid URL"
NoFirstTable == "Cannot read properties of undefined (reading 'toString')"

Throw(branch, err) ==
    [branch |-> branch, act |-> "throw", db |-> <<>>, query |-> <<>>,
     text |-> <<>>, config |-> <<>>, error |-> err, isError |-> FALSE]

Contents(branch, text) ==
    [branch |-> branch, act |-> "contents", db |-> <<>>, query |-> <<>>,
     text |-> text, config |-> <<>>, error |-> "", isError |-> FALSE]

ErrorContents(branch, text) ==
    [branch |-> branch, act |-> "contents", db |-> <<>>, query |-> <<>>,
     text |-> text, config |-> <<>>, error |-> "", isError |-> TRUE]

ConfigContents(branch, cfg) ==
    [branch |-> branch, act |-> "contents", db |-> <<>>, query |-> <<>>,
     text |-> <<>>, config |-> cfg, error |-> "", isError |-> FALSE]

ReturnsNothing(branch) ==
    [branch |-> branch, act |-> "undefined", db |-> <<>>, query |-> <<>>,
     text |-> <<>>, config |-> <<>>, error |-> "", isError |-> FALSE]

\* await this.client.execute(db, query)
Execute(branch, db, query) ==
    [branch |-> branch, act |-> "execute", db |-> db, query |-> query,
     text |-> <<>>, config |-> <<>>, error |-> "", isError |-> FALSE]

\* const db = this.getDb(); await db.all(sql)
StoreAll(branch, sql) ==
    [branch |-> branch, act |-> "all", db |-> <<>>, query |-> sql,
     text |-> <<>>, config |-> <<>>, error |-> "", isError |-> FALSE]

(***************************************************************************)
(* The config resource: the four texts, in the order cluster name, client  *)
(* id, client secret, tenant id.                                           *)
(***************************************************************************)
\* the local-store variant prints the secret as it is
ConfigTextsPlain(e) ==
    << EnvText(e, "ADX_CLUSTER_NAME"), EnvText(e, "ADX_CLIENT_ID"),
       EnvText(e, "ADX_CLIENT_SECRET"), EnvText(e, "ADX_TENANT_ID") >>

\* the Kusto and raw variants mask it
ConfigTextsMasked(e) ==
    << EnvText(e, "ADX_CLUSTER_NAME"), EnvText(e, "ADX_CLIENT_ID"),
       IF EnvTruthy(e, "ADX_CLIENT_SECRET") THEN SecretMask ELSE NotSetText,
       EnvText(e, "ADX_TENANT_ID") >>

(***************************************************************************)
(* The collaborators' results.  A result table is rendered by toString();  *)
(* the rows of the local store are rendered by JSON.stringify or by        *)
(* joining their sql column.                                               *)
(***************************************************************************)
\* response.primaryResults of a call that returned: no table, or two
PrimaryResultSets == { <<>>, <<"T1", "T2">>, <<"T2">> }

\* what execute, all or the transport may raise
ExecuteErrors == { "KustoError: request failed" }
StoreErrors == { "SQLITE_ERROR: syntax error" }

\* the rows all(sql) may resolve to
StoreRows == { <<>>, <<"r1", "r2">> }

\* primaryResults[i].toString()
TableToString(t) == <<"t","a","b","l","e",":">> \o <<t>>

\* response.primaryResults[0].toString(), of a response that has a first table
FirstTableText(tables) == TableToString(tables[1])

\* JSON.stringify(result, null, 2)
JsonStringify(rows) == <<"[">> \o rows \o <<"]">>

\* tables.map(t => t.sql).join("\n")
RECURSIVE JoinSql(_)
JoinSql(rows) ==
    IF rows = <<>> THEN <<>>
    ELSE IF Len(rows) = 1 THEN <<"s","q","l",":">> \o <<rows[1]>>
    ELSE <<"s","q","l",":">> \o <<rows[1]>> \o <<"\n">> \o JoinSql(Tail(rows))

\* `Error: ${err}`
ErrorText(err) == <<"E","r","r","o","r",":"," ">> \o <<err>>

(***************************************************************************)
(* The handlers of the raw-handler variant (src/unnamed/part_000).         *)
(***************************************************************************)
\* the ReadResource handler that registerResources sets
registerResourcesRead(uri, e) ==
    IF StartsWith(uri, ConfigUri)
    THEN ConfigContents("config", ConfigTextsMasked(e))
    ELSE ReturnsNothing("none")

\* the ReadResource handler that registerResourceTemplates sets; c is this.client
registerResourceTemplatesRead(uri, c) ==
    IF showTablesRegex(uri) THEN
        LET db == Piece(uri, 3)
        IN  IF c = 0 THEN Throw("showTables", NotInitializedRaw)
            ELSE IF db = <<>> THEN Contents("showTables", InvalidUriText)
            ELSE Execute("showTables", db, ShowTablesQuery)
    ELSE IF showTableSchemaRegex(uri) THEN
        LET db == Piece(uri, 3)
            table == Piece(uri, 4)
        IN  IF c = 0 THEN Throw("showTableSchema", NotInitializedRaw)
            ELSE IF db = <<>> \/ table = <<>>
                 THEN Contents("showTableSchema", InvalidUriText)
            ELSE Execute("showTableSchema", db, table \o GetSchemaSuffix)
    ELSE IF showFunctionsRegex(uri) THEN
        LET db == Piece(uri, 3)
        IN  IF c = 0 THEN Throw("showFunctions", NotInitializedRaw)
            ELSE Execute("showFunctions", db, ShowFunctionsQuery)
    ELSE ReturnsNothing("none")

(***************************************************************************)
(* The callbacks of the Kusto variant (src/src/adxMcpServer.ts 193-425).   *)
(* table is <<>> when the template has no {table}.                         *)
(***************************************************************************)
dbSchemaCallback(db, table, c) ==
    IF c = 0 THEN Throw("dbSchema", NotInitializedKusto)
    ELSE IF table = <<>> THEN Execute("dbSchema", db, ShowTablesQuery)
    ELSE ReturnsNothing("dbSchema")

tableSchemaCallback(db, table, c) ==
    IF c = 0 THEN Throw("tableSchema", NotInitializedKusto)
    ELSE IF table # <<>> THEN Execute("tableSchema", db, table \o GetSchemaSuffix)
    ELSE ReturnsNothing("tableSchema")

functionsCallback(db, c) ==
    IF c = 0 THEN Throw("functions", NotInitializedKusto)
    ELSE Execute("functions", db, ShowFunctionsQuery)

configCallbackKusto(e) == ConfigContents("config", ConfigTextsMasked(e))

\* the two arguments of execute in the wrong order
queryToolSwapped(db, query, c) ==
    IF c = 0 THEN Throw("query", NotInitializedKusto)
    ELSE Execute("query", query, db)

\* the query tool: data.db and data.query go to execute as they are
queryToolKusto(db, query, c) ==
    IF c = 0 THEN Throw("query", NotInitializedKusto)
    ELSE Execute("query", db, query)

(***************************************************************************)
(* The callbacks of the local-store variant (src/src/adxMcpServer.ts       *)
(* 1-191).                                                                 *)
(***************************************************************************)
SchemaMasterSql == <<"S","E","L","E","C","T"," ","s","q","l"," ","F","R","O","M"," ","s","q","l","i","t","e","_","m","a","s","t","e","r"," ","W","H","E","R","E"," ","t","y","p","e","=","'","t","a","b","l","e","'">>

schemaResourceLocal == StoreAll("schemaMain", SchemaMasterSql)

configCallbackLocal(e) == ConfigContents("config", ConfigTextsPlain(e))

queryToolLocal(sql) == StoreAll("querySql", sql)

(***************************************************************************)
(* Registration.  initialize() registers the endpoints in source order.    *)
(* The McpServer variants register resources, templates and tools; the raw *)
(* variant sets request handlers, and setting a handler for a method that  *)
(* already has one replaces it.                                            *)
(***************************************************************************)
Entry(kind, name, handler) == [kind |-> kind, name |-> name, handler |-> handler]

initializeLocal ==
    << Entry("resource", "schema://main", "schemaResourceLocal"),
       Entry("resource", "config://azure-data-explorer-creds", "configCallbackLocal"),
       Entry("tool", "query", "queryToolLocal") >>

initializeKusto ==
    << Entry("template", "schema://adx/{db}", "dbSchemaCallback"),
       Entry("template", "schema://adx/{db}/{table}", "tableSchemaCallback"),
       Entry("template", "functions://adx/{db}/functions", "functionsCallback"),
       Entry("resource", "config://azure-data-explorer-creds", "configCallbackKusto"),
       Entry("tool", "query", "queryToolKusto") >>

initializeRaw ==
    << Entry("request", "resources/list", "listResources"),
       Entry("request", "resources/read", "registerResourcesRead"),
       Entry("request", "resources/templates/list", "listResourceTemplates"),
       Entry("request", "resources/read", "registerResourceTemplatesRead") >>

initialize(v) ==
    CASE v = "local" -> initializeLocal
      [] v = "kusto" -> initializeKusto
      [] v = "raw" -> initializeRaw

\* the address a registered resource name stands for
ResourceUri(name) ==
    CASE name = "schema://main" -> SchemaMainUri
      [] name = "config://azure-data-explorer-creds" -> ConfigUri

\* whether the template of that name matches the address
TemplateMatches(name, uri) ==
    CASE name = "schema://adx/{db}" -> MatchesDbTemplate(uri)
      [] name = "schema://adx/{db}/{table}" -> MatchesTableTemplate(uri)
      [] name = "functions://adx/{db}/functions" -> MatchesFunctionsTemplate(uri)

\* the scheme prefix of a template
TemplatePrefix(name) ==
    IF name = "functions://adx/{db}/functions" THEN FunctionsAdxPrefix ELSE SchemaAdxPrefix

\* the variables of the template: has it a {table}
TemplateHasTable(name) == name = "schema://adx/{db}/{table}"

\* the positions of the entries of reg of that kind
Positions(reg, kind) == {i \in 1..Len(reg) : reg[i].kind = kind}

Min(S) == CHOOSE x \in S : \A y \in S : x <= y
Max(S) == CHOOSE x \in S : \A y \in S : x >= y

\* a callback of a McpServer resource or template, by its name
RunCallback(handler, uri, tname, c, e) ==
    CASE handler = "schemaResourceLocal" -> schemaResourceLocal
      [] handler = "configCallbackLocal" -> configCallbackLocal(e)
      [] handler = "configCallbackKusto" -> configCallbackKusto(e)
      [] handler = "dbSchemaCallback" ->
            dbSchemaCallback(TemplateDb(uri, TemplatePrefix(tname)),
                IF TemplateHasTable(tname)
                THEN TemplateTable(uri, TemplatePrefix(tname)) ELSE <<>>, c)
      [] handler = "tableSchemaCallback" ->
            tableSchemaCallback(TemplateDb(uri, TemplatePrefix(tname)),
                IF TemplateHasTable(tname)
                THEN TemplateTable(uri, TemplatePrefix(tname)) ELSE <<>>, c)
      [] handler = "functionsCallback" ->
            functionsCallback(TemplateDb(uri, TemplatePrefix(tname)), c)

\* McpServer's resources/read: the URL is parsed, an exactly registered
\* address wins, then the first matching template in registration order
ReadResourceMcp(reg, uri, c, e) ==
    LET exact == {i \in Positions(reg, "resource") : ResourceUri(reg[i].name) = uri}
        templ == {i \in Positions(reg, "template") : TemplateMatches(reg[i].name, uri)}
    IN  IF ~IsUrl(uri) THEN Throw("none", InvalidUrl)
        ELSE IF exact # {}
             THEN RunCallback(reg[Min(exact)].handler, uri, reg[Min(exact)].name, c, e)
        ELSE IF templ # {}
             THEN RunCallback(reg[Min(templ)].handler, uri, reg[Min(templ)].name, c, e)
        ELSE Throw("none", ResourceNotFound)

\* the raw Server's resources/read: the handler set last for the method
ReadResourceRaw(reg, uri, c, e) ==
    LET set == {i \in Positions(reg, "request") : reg[i].name = "resources/read"}
    IN  IF set = {} THEN Throw("none", "Method not found")
        ELSE IF reg[Max(set)].handler = "registerResourcesRead"
             THEN registerResourcesRead(uri, e)
        ELSE registerResourceTemplatesRead(uri, c)

\* resources/read of the running variant
ReadResource(v, reg, uri, c, e) ==
    IF v = "raw" THEN ReadResourceRaw(reg, uri, c, e)
    ELSE ReadResourceMcp(reg, uri, c, e)

\* tools/call of the tool "query": args.db, args.query (Kusto) or args.sql
\* (local store, carried in query)
CallTool(reg, db, query, c) ==
    LET set == {i \in Positions(reg, "tool") : reg[i].name = "query"}
    IN  IF set = {} THEN Throw("none", "Method not found")
        ELSE IF reg[Min(set)].handler = "queryToolKusto"
             THEN queryToolKusto(db, query, c)
        ELSE queryToolLocal(query)

(***************************************************************************)
(* What the server advertises.  The raw variant's two list handlers return *)
(* fixed lists; McpServer lists what was registered.                       *)
(***************************************************************************)
\* the ListResources handler of registerResources
listResourcesRaw == << "config://azure-data-explorer-creds" >>

\* the ListResourceTemplates handler of registerResourceTemplates
listResourceTemplatesRaw ==
    << "schema://adx/{db}", "schema://adx/{db}/{table}", "schema://adx/{db}/functions" >>

IsResourceEntry(e) == e.kind = "resource"
IsTemplateEntry(e) == e.kind = "template"

\* the names of the entries, in order
EntryNames(entries) == [i \in 1..Len(entries) |-> entries[i].name]

\* the answer to resources/list or resources/templates/list
ListResult(v, reg, method) ==
    IF v = "raw"
    THEN IF \A i \in Positions(reg, "request") : reg[i].name # method THEN <<>>
         ELSE IF method = "resources/list" THEN listResourcesRaw
         ELSE listResourceTemplatesRaw
    ELSE IF method = "resources/list"
         THEN EntryNames(SelectSeq(reg, IsResourceEntry))
    ELSE EntryNames(SelectSeq(reg, IsTemplateEntry))

(***************************************************************************)
(* A handler resuming after its await.                                     *)
(***************************************************************************)
\* the code reading the wrong table of the response
ResumeLastTable(branch, db, tables) ==
    IF tables = <<>> THEN Throw(branch, NoFirstTable)
    ELSE Contents(branch, TableToString(tables[Len(tables)]))

\* execute returned: the text of primaryResults[0]; the raw functions
\* branch tests the database name only now
ResumeReturned(branch, db, tables) ==
    IF tables = <<>> THEN Throw(branch, NoFirstTable)
    ELSE IF branch = "showFunctions" /\ db = <<>>
         THEN Contents(branch, InvalidUriText)
    ELSE Contents(branch, FirstTableText(tables))

\* execute raised: no handler catches it
ResumeRaised(branch, err) == Throw(branch, err)

\* all(sql) resolved
StoreResolved(branch, rows) ==
    IF branch = "querySql" THEN Contents(branch, JsonStringify(rows))
    ELSE Contents(branch, JoinSql(rows))

\* all(sql) rejected: the query tool catches it, the schema resource does not
StoreRejected(branch, err) ==
    IF branch = "querySql" THEN ErrorContents(branch, ErrorText(err))
    ELSE Throw(branch, err)

(***************************************************************************)
(* The inputs of the model.                                                *)
(***************************************************************************)
\* database names: a word, and one with a character outside \w
DbNames == { <<"d","b">>, <<"a","-","b">> }

\* table names: a word, the literal functions, one with a character outside \w
TableNames == { <<"t">>, FunctionsWord, <<"x","-","y">> }

WordDb == <<"d","b">>

\* schema://adx/<db>
DbUri(db) == SchemaAdxPrefix \o db

\* schema://adx/<db>/<table>
TableUri(db, t) == SchemaAdxPrefix \o db \o <<Slash>> \o t

\* functions://adx/<db>/functions
FunctionsUri(db) == FunctionsAdxPrefix \o db \o <<Slash>> \o FunctionsWord

\* the addresses read: the advertised shapes, the shapes with an empty
\* segment, one with text ahead of the scheme, and the fixed resources
ReadUris ==
    {DbUri(db) : db \in DbNames}
    \cup {TableUri(WordDb, t) : t \in TableNames}
    \cup {DbUri(<<>>), TableUri(WordDb, <<>>), TableUri(<<>>, <<"t">>)}
    \cup {FunctionsUri(WordDb)}
    \cup {<<"x", Slash, Slash>> \o DbUri(WordDb)}
    \cup {ConfigUri, SchemaMainUri}

\* the query texts and sql texts given to the tool
QueryTexts ==
    { <<"T"," ","|"," ","t","a","k","e"," ","5">>,
      <<".","d","r","o","p"," ","t","a","b","l","e"," ","T">> }

\* the environment the process starts with: all four names set, or one of
\* them missing, or one of them empty
FullEnv ==
    [k \in EnvNames |->
        CASE k = "ADX_CLUSTER_NAME" -> <<"c","l","u">>
          [] k = "ADX_CLIENT_ID" -> <<"i","d">>
          [] k = "ADX_CLIENT_SECRET" -> <<"p","w","d">>
          [] k = "ADX_TENANT_ID" -> <<"t","e","n">>]

Envs ==
    {FullEnv}
    \cup {[k \in EnvNames \ {m} |-> FullEnv[k]] : m \in EnvNames}
    \cup {[FullEnv EXCEPT ![m] = <<>>] : m \in EnvNames}

\* the sql argument of the local store's tool
SqlTexts == { <<"S","E","L","E","C","T"," ","1">> }

\* the .env file: none, or one that gives all four names
DotenvFiles == { <<>>, [k \in EnvNames |-> <<"f">> \o FullEnv[k]] }

(***************************************************************************)
(* The state.                                                              *)
(***************************************************************************)
VARIABLES
    variant,      \* which AdxMcpServer runs
    env,          \* process.env
    dotenvFile,   \* the .env file config() reads
    pc,           \* createServer: "constructed", "initialized", "started", "done"; "exited"
    registered,   \* the endpoints registered, in order
    client,       \* this.client: 0 is null, else the number of the Client
    clientsMade,  \* how many Clients were constructed
    closeCalls,   \* closeCalls[i]: how often close() was called on Client i
    connectCalls, \* how often connect() has run
    logs,         \* what console.error has printed
    inflight,     \* the requests awaiting a collaborator (a bag)
    openStores,   \* the local store handles opened and not yet closed (a set)
    last          \* the request that completed in this turn, and how

vars == <<variant, env, dotenvFile, pc, registered, client, clientsMade, closeCalls,
          connectCalls, logs, inflight, openStores, last>>

Variants == {"local", "kusto", "raw"}

Request(kind, uri, db, query) ==
    [kind |-> kind, uri |-> uri, argDb |-> db, argQuery |-> query]

NoRequest ==
    [kind |-> "none", uri |-> <<>>, argDb |-> <<>>, argQuery |-> <<>>,
     branch |-> "none", ready |-> FALSE, calls |-> <<>>, exec |-> "none",
     tables |-> <<>>, act |-> "none", error |-> "", text |-> <<>>,
     config |-> <<>>, isError |-> FALSE, opened |-> 0, closed |-> 0,
     listed |-> <<>>, store |-> 0]

\* a completed request: what it was, what it called, what came back
Completed(req, ready, calls, exec, tables, step, opened, closed) ==
    [kind |-> req.kind, uri |-> req.uri, argDb |-> req.argDb, argQuery |-> req.argQuery,
     branch |-> step.branch, ready |-> ready, calls |-> calls, exec |-> exec,
     tables |-> tables, act |-> step.act, error |-> step.error, text |-> step.text,
     config |-> step.config, isError |-> step.isError,
     opened |-> opened, closed |-> closed, listed |-> <<>>, store |-> 0]

\* a turn of the event loop ended: the response of the handler that
\* completed in it, if any, has been handed to the transport
Idle == last = NoRequest

\* the transport is connected and the process lives
Serving == Idle /\ pc \in {"started", "done"}

Init ==
    /\ variant \in Variants
    /\ env \in Envs
    /\ dotenvFile \in DotenvFiles
    /\ variant = "local" => dotenvFile = <<>>
    /\ pc = "constructed"
    /\ registered = <<>>
    /\ client = 0
    /\ clientsMade = 0
    /\ closeCalls = <<>>
    /\ connectCalls = 0
    /\ logs = {}
    /\ inflight = EmptyBag
    /\ openStores = {}
    /\ last = NoRequest

(***************************************************************************)
(* createServer: new AdxMcpServer().initialize(); await start(); await     *)
(* connect().  A rejection ends the process (part_001).                    *)
(***************************************************************************)
Initialize ==
    /\ pc = "constructed"
    /\ pc' = "initialized"
    /\ registered' = initialize(variant)
    /\ UNCHANGED <<variant, env, dotenvFile, client, clientsMade, closeCalls,
                   connectCalls, logs, inflight, openStores, last>>

\* await this.server.connect(transport) resolved: requests are served from now on
Start ==
    /\ pc = "initialized"
    /\ pc' = "started"
    /\ UNCHANGED <<variant, env, dotenvFile, registered, client, clientsMade,
                   closeCalls, connectCalls, logs, inflight, openStores, last>>

\* it rejected: createServer().catch logs and calls process.exit(1)
StartFails ==
    /\ pc = "initialized"
    /\ pc' = "exited"
    /\ logs' = logs \cup {"Error starting ADX MCP server"}
    /\ UNCHANGED <<variant, env, dotenvFile, registered, client, clientsMade,
                   closeCalls, connectCalls, inflight, openStores, last>>

\* connect(): createServer's call after start(), or a later call
Connect ==
    /\ Serving
    /\ connectCalls < MaxConnects
    /\ LET loaded == IF variant = "local" THEN env ELSE config(env, dotenvFile)
       IN  /\ env' = loaded
           /\ IF envSchema(loaded)
              THEN /\ client' = clientsMade + 1
                   /\ clientsMade' = clientsMade + 1
                   /\ closeCalls' = Append(closeCalls, 0)
                   /\ UNCHANGED logs
              ELSE /\ logs' = logs \cup {"Environment variable validation failed:"}
                   /\ UNCHANGED <<client, clientsMade, closeCalls>>
    /\ connectCalls' = connectCalls + 1
    /\ pc' = "done"
    /\ UNCHANGED <<variant, dotenvFile, registered, inflight, openStores, last>>

\* the handle after disconnect() forgot to clear it
disconnectKeepsHandle(c) == c

\* this.client after disconnect()
disconnectHandle(c) == 0

\* disconnect(): close and clear the handle, when there is one
Disconnect ==
    /\ Idle
    /\ pc # "exited"
    /\ IF client # 0
       THEN /\ closeCalls' = [closeCalls EXCEPT ![client] = @ + 1]
            /\ client' = disconnectHandle(client)
       ELSE UNCHANGED <<client, closeCalls>>
    /\ UNCHANGED <<variant, env, dotenvFile, pc, registered, clientsMade,
                   connectCalls, logs, inflight, openStores, last>>

(***************************************************************************)
(* Requests.  A handler runs to its first await in one step; the           *)
(* collaborator's answer resumes it in a later step.                       *)
(***************************************************************************)
\* getDb() constructs a new handle on the store: one that is not any of
\* the handles open now (the lowest free number stands for it)
getDb(open) ==
    CHOOSE h \in 1..(Cardinality(open) + 1) :
        h \notin open /\ \A g \in 1..(h - 1) : g \in open

\* the handles a handler opens before its first await
HandlesOpened(step, open) == IF step.act = "all" THEN {getDb(open)} ELSE {}

\* whether the handler found this.client set: the store handlers never
\* look at it
ClientSeen(step, c) == step.act = "execute" /\ c # 0

Waiting(req, ready, step, handles) ==
    [req |-> req, ready |-> ready, branch |-> step.branch, phase |-> step.act,
     db |-> step.db, query |-> step.query, held |-> ReturnsNothing(step.branch),
     store |-> IF handles = {} THEN 0 ELSE CHOOSE h \in handles : TRUE,
     opened |-> Cardinality(handles), closed |-> 0]

Dispatch(req, step) ==
    IF step.act \in {"execute", "all"}
    THEN /\ BagCardinality(inflight) < MaxInflight
         /\ inflight' = inflight (+)
                SetToBag({Waiting(req, ClientSeen(step, client), step,
                                  HandlesOpened(step, openStores))})
         /\ openStores' = openStores \cup HandlesOpened(step, openStores)
         /\ UNCHANGED last
    ELSE /\ last' = Completed(req, client # 0, <<>>, "none", <<>>, step, 0, 0)
         /\ UNCHANGED <<inflight, openStores>>

\* a resources/read request arrives
ReadRequest ==
    /\ Serving
    /\ \E uri \in ReadUris :
          Dispatch(Request("read", uri, <<>>, <<>>),
                   ReadResource(variant, registered, uri, client, env))
    /\ UNCHANGED <<variant, env, dotenvFile, pc, registered, client, clientsMade,
                   closeCalls, connectCalls, logs>>

\* a resources/list or resources/templates/list request arrives; the
\* handler returns the list at once
ListRequest ==
    /\ Serving
    /\ \E method \in {"resources/list", "resources/templates/list"} :
          last' = [Completed(Request("list", <<>>, <<>>, <<>>), client # 0, <<>>,
                             "none", <<>>, Contents(method, <<>>), 0, 0)
                   EXCEPT !.listed = ListResult(variant, registered, method)]
    /\ UNCHANGED <<variant, env, dotenvFile, pc, registered, client, clientsMade,
                   closeCalls, connectCalls, logs, inflight, openStores>>

\* the db argument of a tool call: the local store's tool has none
ToolDbs(v) == IF v = "local" THEN { <<>> } ELSE { WordDb }

\* the text argument of a tool call: sql for the local store, else a query
ToolQueries(v) == IF v = "local" THEN SqlTexts ELSE QueryTexts

\* a tools/call request for the tool "query" arrives
ToolRequest ==
    /\ Serving
    /\ \E db \in ToolDbs(variant), q \in ToolQueries(variant) :
          Dispatch(Request("tool", <<>>, db, q), CallTool(registered, db, q, client))
    /\ UNCHANGED <<variant, env, dotenvFile, pc, registered, client, clientsMade,
                   closeCalls, connectCalls, logs>>

CallOf(r) == << [db |-> r.db, query |-> r.query] >>

\* execute resolves with a response
ExecuteReturns ==
    /\ Serving
    /\ \E r \in BagToSet(inflight), tables \in PrimaryResultSets :
          /\ r.phase = "execute"
          /\ inflight' = inflight (-) SetToBag({r})
          /\ last' = Completed(r.req, r.ready, CallOf(r), "returned", tables,
                               ResumeReturned(r.branch, r.db, tables), 0, 0)
    /\ UNCHANGED <<variant, env, dotenvFile, pc, registered, client, clientsMade,
                   closeCalls, connectCalls, logs, openStores>>

\* execute rejects
ExecuteRaises ==
    /\ Serving
    /\ \E r \in BagToSet(inflight), err \in ExecuteErrors :
          /\ r.phase = "execute"
          /\ inflight' = inflight (-) SetToBag({r})
          /\ last' = Completed(r.req, r.ready, CallOf(r), "raised", <<>>,
                               ResumeRaised(r.branch, err), 0, 0)
    /\ UNCHANGED <<variant, env, dotenvFile, pc, registered, client, clientsMade,
                   closeCalls, connectCalls, logs, openStores>>

\* a handler's completion, with the store handle it used
CompletedStore(r, step) ==
    [Completed(r.req, r.ready, <<>>, "none", <<>>, step, r.opened, r.closed)
     EXCEPT !.store = r.store]

\* the try block was left on a path that skips the close
CloseInTry(branch, outcome) == ~(branch = "schemaMain" /\ outcome = "rejected")

\* finally { await db.close() }: whether close() is called once all(sql)
\* has settled, for either handler and either outcome
finallyCloses(branch, outcome) == outcome \in {"resolved", "rejected"}

\* all(sql) settled with the handler holding step: the handler calls
\* close() and awaits it, or ends at once where no close is reached
Settle(r, step, outcome) ==
    IF finallyCloses(r.branch, outcome)
    THEN /\ inflight' = (inflight (-) SetToBag({r})) (+)
                SetToBag({[r EXCEPT !.phase = "close", !.held = step,
                                    !.closed = @ + 1]})
         /\ UNCHANGED last
    ELSE /\ inflight' = inflight (-) SetToBag({r})
         /\ last' = CompletedStore(r, step)

\* all(sql) resolves; the finally block awaits close()
StoreAllResolves ==
    /\ Serving
    /\ \E r \in BagToSet(inflight), rows \in StoreRows :
          /\ r.phase = "all"
          /\ Settle(r, StoreResolved(r.branch, rows), "resolved")
    /\ UNCHANGED <<variant, env, dotenvFile, pc, registered, client, clientsMade,
                   closeCalls, connectCalls, logs, openStores>>

\* all(sql) rejects; the finally block awaits close()
StoreAllRejects ==
    /\ Serving
    /\ \E r \in BagToSet(inflight), err \in StoreErrors :
          /\ r.phase = "all"
          /\ Settle(r, StoreRejected(r.branch, err), "rejected")
    /\ UNCHANGED <<variant, env, dotenvFile, pc, registered, client, clientsMade,
                   closeCalls, connectCalls, logs, openStores>>

\* close() resolves and the handler ends with what it held
StoreCloses ==
    /\ Serving
    /\ \E r \in BagToSet(inflight) :
          /\ r.phase = "close"
          /\ inflight' = inflight (-) SetToBag({r})
          /\ openStores' = openStores \ {r.store}
          /\ last' = CompletedStore(r, r.held)
    /\ UNCHANGED <<variant, env, dotenvFile, pc, registered, client, clientsMade,
                   closeCalls, connectCalls, logs>>

\* the handler's promise settled: the server writes the response (the
\* payload, or the error a throw became) before any other event is taken
Respond ==
    /\ ~Idle
    /\ last' = NoRequest
    /\ UNCHANGED <<variant, env, dotenvFile, pc, registered, client, clientsMade,
                   closeCalls, connectCalls, logs, inflight, openStores>>

Next ==
    \/ Initialize
    \/ Start
    \/ StartFails
    \/ Connect
    \/ Disconnect
    \/ ReadRequest
    \/ ListRequest
    \/ ToolRequest
    \/ ExecuteReturns
    \/ ExecuteRaises
    \/ StoreAllResolves
    \/ StoreAllRejects
    \/ StoreCloses
    \/ Respond

Spec == Init /\ [][Next]_vars

(***************************************************************************)
(* Properties.                                                             *)
(***************************************************************************)
\* the branches that call the remote client
RemoteBranches ==
    {"showTables", "showTableSchema", "showFunctions",
     "dbSchema", "tableSchema", "functions", "query"}

\* the requests awaiting execute
AwaitingExecute == {r \in BagToSet(inflight) : r.phase = "execute"}

\* one of the four names is missing from process.env, or empty
EnvIncomplete == \E k \in EnvNames : k \notin DOMAIN env \/ env[k] = <<>>

\* the names made of word characters only
WordNames(S) == {n \in S : n # <<>> /\ \A i \in 1..Len(n) : n[i] \in WordChars}

\* the completed request called execute once, with db and query, and when
\* the call returned a first table the payload text is its rendering
CalledOnce(db, query) ==
    /\ last.calls = << [db |-> db, query |-> query] >>
    /\ (last.exec = "returned" /\ last.tables # <<>>) =>
            /\ last.act = "contents"
            /\ last.text = TableToString(last.tables[1])

\* C1: once connect() has validated an environment in which one of the four
\* names is missing or empty, it has logged, the process lives, the handle
\* is null, no request awaits execute, and a request that reached a
\* remote-dependent handler ended with the "not initialized" error and
\* without any call of execute.
C1_UninitializedHandle ==
    (connectCalls > 0 /\ EnvIncomplete) =>
        /\ client = 0
        /\ "Environment variable validation failed:" \in logs
        /\ pc = "done"
        /\ AwaitingExecute = {}
        /\ last.branch \in RemoteBranches =>
              /\ last.act = "throw"
              /\ last.error \in {NotInitializedKusto, NotInitializedRaw}
              /\ last.calls = <<>>

\* C1 witness: validation failed and the query tool then ended uninitialized
C1_Witness ==
    /\ connectCalls > 0
    /\ EnvIncomplete
    /\ last.kind = "tool"
    /\ last.branch = "query"
    /\ last.error = NotInitializedKusto

\* C2: a read of schema://adx/<db>/functions with an initialized handle goes
\* to the functions-list behaviour: the one query issued is .show functions
\* against db, never "functions | getschema".
C2_FunctionsRouting ==
    (variant \in {"kusto", "raw"}) => \A db \in DbNames :
        /\ \A r \in AwaitingExecute :
              r.req.uri = TableUri(db, FunctionsWord) =>
                  /\ r.branch \in {"showFunctions", "functions"}
                  /\ r.db = db
                  /\ r.query = ShowFunctionsQuery
        /\ (last.kind = "read" /\ last.uri = TableUri(db, FunctionsWord) /\ last.ready) =>
              /\ last.branch \in {"showFunctions", "functions"}
              /\ last.calls = << [db |-> db, query |-> ShowFunctionsQuery] >>

\* the schema-family reads exist in the Kusto and raw variants
SchemaVariant == variant \in {"kusto", "raw"}

\* a read of schema://adx/<db> with an initialized handle lists the tables
TablesListed(db) ==
    /\ \A r \in AwaitingExecute :
          r.req.uri = DbUri(db) => r.db = db /\ r.query = ShowTablesQuery
    /\ (last.kind = "read" /\ last.uri = DbUri(db) /\ last.ready) =>
          CalledOnce(db, ShowTablesQuery)

SchemaAsked(db, t) ==
    /\ \A r \in AwaitingExecute :
          r.req.uri = TableUri(db, t) => r.db = db /\ r.query = t \o GetSchemaSuffix
    /\ (last.kind = "read" /\ last.uri = TableUri(db, t) /\ last.ready) =>
          CalledOnce(db, t \o GetSchemaSuffix)

C5_SecretRedacted ==
    (last.kind = "read" /\ last.uri = ConfigUri /\ last.act = "contents") =>
        /\ last.config[3] =
              IF EnvTruthy(env, "ADX_CLIENT_SECRET") THEN SecretMask ELSE NotSetText
        /\ EnvTruthy(env, "ADX_CLIENT_SECRET") =>
              \A i \in 1..Len(last.config) : last.config[i] # env["ADX_CLIENT_SECRET"]

\* C6: a call of the query tool with {db, query} and an initialized handle
\* makes exactly one remote call, execute(db, query) with both as given,
\* and on success answers with the text of the first result table.
C6_QueryPassThrough ==
    /\ \A r \in AwaitingExecute :
          r.req.kind = "tool" => r.db = r.req.argDb /\ r.query = r.req.argQuery
    /\ (last.kind = "tool" /\ last.branch = "query" /\ last.ready) =>
          CalledOnce(last.argDb, last.argQuery)

\* C6 witness: a query was forwarded, returned, and its first table rendered
C6_Witness ==
    /\ last.kind = "tool"
    /\ last.ready
    /\ last.argQuery \in QueryTexts
    /\ last.calls = << [db |-> WordDb, query |-> last.argQuery] >>
    /\ last.tables = <<"T1", "T2">>
    /\ last.text = TableToString("T1")

\* C7: when execute raises, the handler catches it and returns a payload
\* with the error flag set that holds the error's description; nothing is
\* thrown out of the handler.
C7_ExecuteFailureCaught ==
    last.exec = "raised" =>
        /\ last.act = "contents"
        /\ last.isError
        /\ \E i \in 1..Len(last.text) : last.text[i] \in ExecuteErrors

\* C8: disconnect() leaves the handle null whatever it was, and no Client
\* ever has close() called on it more than once.
C8_DisconnectIdempotent ==
    /\ [](\A i \in 1..clientsMade : closeCalls[i] <= 1)
    /\ [][Disconnect => client' = 0]_vars

\* C8 witness: a Client was constructed, closed once, and the handle is null
C8_Witness ==
    /\ clientsMade >= 1
    /\ client = 0
    /\ closeCalls[1] = 1

\* the schema-family addresses with an empty database or table segment
EmptySegmentUris == {DbUri(<<>>), TableUri(WordDb, <<>>), TableUri(<<>>, <<"t">>)}

\* C9: a read of a schema-family address with a missing or empty segment
\* returns the "Invalid URI" payload: it neither throws nor returns nothing,
\* and it calls nothing.  (Stated of the raw variant, whose handler holds
\* the payload, and of a read made with the handle initialized.)
C9_InvalidUriPayload ==
    (variant = "raw" /\ last.kind = "read" /\ last.ready
        /\ last.uri \in EmptySegmentUris) =>
        /\ last.act = "contents"
        /\ last.text = InvalidUriText
        /\ last.calls = <<>>

\* C10: the server serves only after connect() has run, no request reaches
\* a handler before that, and serving starts with registration complete.
C10_ConnectBeforeServing ==
    /\ pc \in {"started", "done"} => connectCalls > 0
    /\ last.kind # "none" => connectCalls > 0
    /\ pc \in {"started", "done"} => registered = initialize(variant)

\* the members of a sequence
Range(q) == {q[i] : i \in 1..Len(q)}

\* the addresses a listed template stands for, with word-character names
TemplateInstances(name) ==
    CASE name = "schema://adx/{db}" -> {DbUri(db) : db \in WordNames(DbNames)}
      [] name = "schema://adx/{db}/{table}" ->
            {TableUri(db, t) : db \in WordNames(DbNames), t \in WordNames(TableNames)}
      [] name = "schema://adx/{db}/functions" ->
            {TableUri(db, FunctionsWord) : db \in WordNames(DbNames)}

\* the addresses the raw variant advertises
AdvertisedRaw ==
    {ResourceUri(n) : n \in Range(listResourcesRaw)}
    \cup UNION {TemplateInstances(n) : n \in Range(listResourceTemplatesRaw)}

\* C11: in the raw variant a read of an address the server advertises (the
\* listed config resource, or a listed template filled with word-character
\* names) is answered with a contents payload or an error, never with
\* nothing.
C11_AdvertisedAnswered ==
    (variant = "raw" /\ last.kind = "read" /\ last.uri \in AdvertisedRaw) =>
        last.act \in {"contents", "throw"}

\* the requests in flight that hold a store handle
StoreHolders == {r \in BagToSet(inflight) : r.phase \in {"all", "close"}}

\* the completed request ran one of the two handlers that use the store
StoreRequestDone ==
    \/ last.kind = "tool"
    \/ last.kind = "read" /\ last.uri = SchemaMainUri

\* C12: in the local-store variant a completed schema://main read or query
\* call has opened one store handle and closed it once, and that handle is
\* no longer open; the handles open at any moment are exactly those of the
\* requests still in flight, one handle per request and no handle held by
\* two requests.
C12_StoreHandlePerRequest ==
    variant = "local" =>
        /\ StoreRequestDone =>
              /\ last.opened = 1
              /\ last.closed = 1
              /\ last.store \notin openStores
        /\ openStores = {r.store : r \in StoreHolders}
        /\ \A r \in StoreHolders :
              /\ CopiesIn(r, inflight) = 1
              /\ r.opened = 1
              /\ r.closed = (IF r.phase = "close" THEN 1 ELSE 0)
              /\ \A q \in StoreHolders : q.store = r.store => q = r

\* a schema://main read whose all(sql) failed completes, closed, while
\* another request still holds its own handle
C12_Witness ==
    /\ variant = "local"
    /\ last.kind = "read"
    /\ last.uri = SchemaMainUri
    /\ last.act = "throw"
    /\ last.closed = 1
    /\ StoreHolders # {}

====
